---- MODULE Spec2Model ----
(***************************************************************************)
(* The RAG workshop notebook "S1 - Introduction to LangChain and RAG" as a *)
(* state machine.  The state is the kernel's global variables and the      *)
(* shared Chroma collection; one action per code cell.  A cell that raises *)
(* leaves the run halted at that cell (err is set, pc does not advance),   *)
(* which is what running the notebook top to bottom does.                  *)
(*                                                                         *)
(* The cells whose body is a TODO placeholder are modelled by what their   *)
(* own comments say they do (the comments name the model to invoke and the *)
(* messages, in order).                                                    *)
(*                                                                         *)
(* The language model and the embedding search are external: a model reply *)
(* is any content with any list of at most MaxCalls tool calls, and a      *)
(* retrieval is any list of at most RETRIEVAL_K distinct stored documents. *)
(***************************************************************************)
EXTENDS Integers, Sequences, FiniteSets, TLC

\* ---------------------------------------------------------------- bounds
\* Number of distinct documents a pickle file may hold.
NumDocs == 2
\* Most tool calls one model reply carries.
MaxCalls == 2
\* Most calls of initialize_vector_store in one kernel session.
MaxBuilds == 3

\* ------------------------------------------------------ program constants
RETRIEVAL_K == 3

BASE_PROMPT == "BASE_PROMPT"
RAG_PROMPT == "RAG_PROMPT"

\* The client request (the same text in both turns).
request == "request"

\* ------------------------------------------------------------- helpers
Range(s) == {s[i] : i \in 1..Len(s)}

\* Sequences over S without repetition, of length at most n.
InjSeqs(S, n) ==
  UNION {{s \in [1..m -> S] : \A i, j \in 1..m : i # j => s[i] # s[j]} : m \in 0..n}

NoDuplicates(s) == \A i, j \in 1..Len(s) : i # j => s[i] # s[j]

\* The Document objects of the pickle file.  Each is a record of its own: the
\* store gives every document it is handed a fresh id.
Docs == 1..NumDocs

\* The lists of documents load_documents can return.
Corpora == InjSeqs(Docs, NumDocs)

\* ------------------------------------------------------------- messages
SystemMessage(text) == [role |-> "system", content |-> text]
HumanMessage(text) == [role |-> "user", content |-> text]
\* The reply of a chat model: an assistant message.
AIMessage(text, calls) == [role |-> "assistant", content |-> text, tool_calls |-> calls]
ToolMessage(text, id) == [role |-> "tool", content |-> text, tool_call_id |-> id]

\* A call of retrieval(retrieval_query: str) validates only with that argument.
ValidArgs == [retrieval_query |-> "query"]
InvalidArgs == [wrong_key |-> "query"]

ToolNames == {"retrieval", "web_search"}

\* The ids the model gives its tool calls.
CallIdNames == <<"call_a", "call_b", "call_c", "call_d">>
CallIds == {CallIdNames[i] : i \in 1..MaxCalls}

ToolCalls == [name : ToolNames, args : {ValidArgs, InvalidArgs}, id : CallIds]

ToolCallLists == UNION {[1..m -> ToolCalls] : m \in 0..MaxCalls}

\* What the tool-aware model may answer.
RagReplies == {AIMessage(c, tcs) : c \in {"", "direct answer"}, tcs \in ToolCallLists}

\* What the plain model answers: content only, never a tool call.
BaseReply == AIMessage("answer", <<>>)

\* ------------------------------------------------------------ the tools
\* tools = [retrieval]; tools_by_name = {tool.name: tool for tool in tools}
tools_by_name == [n \in {"retrieval"} |-> "retrieval"]

LookupWithFallback(name) ==
  IF name \in DOMAIN tools_by_name THEN <<tools_by_name[name]>> ELSE <<"retrieval">>

\* tools_by_name[name]: <<the tool>>, or <<>> for a KeyError.
Lookup(name) ==
  IF name \in DOMAIN tools_by_name THEN <<tools_by_name[name]>> ELSE <<>>

LastToolCall(calls) == calls[Len(calls)]

\* tool_call = rag_response.tool_calls[0]
FirstToolCall(calls) == calls[1]

ToolCallName(call) == call.name

\* tool_call["id"]
ToolCallId(call) == call.id

\* The model the last cell invokes: the base model, not the RAG model.
FinalModel == "base_model"

ToolResultFirst(sys, usr, ai, tl) == <<sys, usr, tl, ai>>

\* The last cell's message list: RAG system prompt, client request, RAG model
\* response, retrieval tool response.
FinalMessages(sys, usr, ai, tl) == <<sys, usr, ai, tl>>

\* "\n\n".join(f"{headline}\n\n{page_content}\n" for doc in documents)
DocumentsStr(docs) == [joined |-> [i \in 1..Len(docs) |-> <<"Headline", docs[i], "page_content", docs[i]>>]]

\* ------------------------------------------------------ the vector store
KeepCollection(coll) == coll

\* Chroma().reset_collection()
ResetCollection(coll) == <<>>

\* Chroma.from_documents(documents=..., embedding=...): adds to the collection.
FromDocuments(coll, chunks) == coll \o chunks

\* retriever.invoke(query): at most k of the stored documents.
Retrievals(coll) == InjSeqs(Range(coll), RETRIEVAL_K)

VARIABLES
  pc,                  \* the cell the run is at
  err,                 \* the exception that halted the run, or "none"
  collection,          \* the shared Chroma collection
  documents,           \* the global `documents`
  retrieved_documents, \* the global `retrieved_documents` (<<>> or <<list>>)
  messages,            \* the global `messages`
  rag_response,        \* <<>> while unbound, else <<reply>>
  tool_call,           \* <<>> while unbound, else <<call>>
  documents_str,       \* <<>> while unbound, else <<string>>
  response,            \* <<>> while unbound, else <<reply>>
  toolInvocations,     \* history: the calls of tool.invoke, in order
  modelCalls,          \* history: the model invocations, in order
  buildCount,          \* history: calls of initialize_vector_store
  lastChunks,          \* history: the argument of the last such call
  discarded,           \* history: documents of earlier builds not in the last
  lastOp               \* history: the last operation on the vector store

vars == <<pc, err, collection, documents, retrieved_documents, messages,
          rag_response, tool_call, documents_str, response, toolInvocations,
          modelCalls, buildCount, lastChunks, discarded, lastOp>>

turnVars == <<messages, rag_response, tool_call, documents_str, response,
              toolInvocations, modelCalls>>
storeVars == <<collection, buildCount, lastChunks, discarded, lastOp>>

InitVars ==
  /\ err = "none"
  /\ collection = <<>>
  /\ documents = <<>>
  /\ retrieved_documents = <<>>
  /\ messages = <<>>
  /\ rag_response = <<>>
  /\ tool_call = <<>>
  /\ documents_str = <<>>
  /\ response = <<>>
  /\ toolInvocations = <<>>
  /\ modelCalls = <<>>
  /\ buildCount = 0
  /\ lastChunks = <<>>
  /\ discarded = {}
  /\ lastOp = "none"

Init == pc = "chat" /\ InitVars

InitializeGuarded(chunks) ==
  /\ buildCount' = buildCount + 1
  /\ lastChunks' = chunks
  /\ lastOp' = "build"
  /\ IF collection # <<>>
       THEN /\ err' = "AlreadyBuiltError"
            /\ UNCHANGED <<collection, discarded>>
       ELSE /\ collection' = FromDocuments(collection, chunks)
            /\ discarded' = (discarded \cup Range(collection)) \ Range(chunks)
            /\ err' = err

\* initialize_vector_store(document_chunks), on the shared collection: the
\* reset, then the load.  It has no failure path of its own.
initialize_vector_store(chunks) ==
  /\ buildCount' = buildCount + 1
  /\ lastChunks' = chunks
  /\ lastOp' = "build"
  /\ collection' = FromDocuments(ResetCollection(collection), chunks)
  /\ discarded' = (discarded \cup Range(collection)) \ Range(chunks)
  /\ err' = err

\* ------------------------------------------------------------ the cells
\* The simple chatbot: messages = [system, user]; response = base_model.invoke.
ChatCell ==
  /\ pc = "chat" /\ err = "none"
  /\ messages' = <<SystemMessage(BASE_PROMPT), HumanMessage(request)>>
  /\ response' = <<BaseReply>>
  /\ modelCalls' = Append(modelCalls, [model |-> "base_model", messages |-> messages'])
  /\ pc' = "load"
  /\ UNCHANGED <<err, documents, retrieved_documents, rag_response, tool_call,
                 documents_str, toolInvocations>>
  /\ UNCHANGED storeVars

\* documents = load_documents(path)
LoadCell ==
  /\ pc = "load" /\ err = "none"
  /\ \E c \in Corpora : documents' = c
  /\ pc' = "build"
  /\ UNCHANGED <<err, retrieved_documents>>
  /\ UNCHANGED turnVars
  /\ UNCHANGED storeVars

\* vector_store = initialize_vector_store(documents); retriever = ...
BuildCell ==
  /\ pc = "build" /\ err = "none"
  /\ initialize_vector_store(documents)
  /\ pc' = IF err' = "none" THEN "ask" ELSE pc
  /\ UNCHANGED <<documents, retrieved_documents>>
  /\ UNCHANGED turnVars

\* messages = [system RAG prompt, user]; rag_response = rag_model.invoke(messages)
AskCell ==
  /\ pc = "ask" /\ err = "none"
  /\ messages' = <<SystemMessage(RAG_PROMPT), HumanMessage(request)>>
  /\ \E r \in RagReplies : rag_response' = <<r>>
  /\ modelCalls' = Append(modelCalls, [model |-> "rag_model", messages |-> messages'])
  /\ pc' = "dispatch"
  /\ UNCHANGED <<err, documents, retrieved_documents, tool_call, documents_str,
                 response, toolInvocations>>
  /\ UNCHANGED storeVars

\* if rag_response.tool_calls: take the first call, look its tool up, invoke it
\* with the call's arguments and join the documents it returns.
DispatchCell ==
  /\ pc = "dispatch" /\ err = "none"
  /\ LET calls == rag_response[1].tool_calls IN
     IF calls = <<>>
       THEN /\ pc' = "show"
            /\ UNCHANGED <<err, documents, tool_call, documents_str, toolInvocations,
                           lastOp>>
       ELSE LET call == FirstToolCall(calls)
                tool == Lookup(call.name)
            IN /\ tool_call' = <<call>>
               /\ IF tool = <<>>
                    THEN /\ err' = "KeyError"
                         /\ UNCHANGED <<pc, documents, documents_str, toolInvocations,
                                        lastOp>>
                    ELSE /\ toolInvocations' =
                              Append(toolInvocations, [tool |-> tool[1], request |-> call])
                         /\ IF call.args # ValidArgs
                              THEN /\ err' = "ValidationError"
                                   /\ UNCHANGED <<pc, documents, documents_str, lastOp>>
                              ELSE /\ \E docs \in Retrievals(collection) :
                                        /\ documents' = docs
                                        /\ documents_str' = <<DocumentsStr(docs)>>
                                   /\ lastOp' = "tool_query"
                                   /\ pc' = "show"
                                   /\ err' = err
  /\ UNCHANGED <<collection, buildCount, lastChunks, discarded>>
  /\ UNCHANGED <<retrieved_documents, messages, rag_response, response, modelCalls>>

\* Markdown(documents_str)
ShowDocsCell ==
  /\ pc = "show" /\ err = "none"
  /\ IF documents_str = <<>>
       THEN err' = "NameError" /\ pc' = pc
       ELSE err' = err /\ pc' = "final"
  /\ UNCHANGED <<documents, retrieved_documents>>
  /\ UNCHANGED turnVars
  /\ UNCHANGED storeVars

\* messages = [system, user, rag_response, ToolMessage(.., tool_call_id=tool_call["id"])]
\* response = base_model.invoke(messages)
FinalCell ==
  /\ pc = "final" /\ err = "none"
  /\ IF tool_call = <<>> \/ documents_str = <<>> \/ rag_response = <<>>
       THEN /\ err' = "NameError"
            /\ UNCHANGED <<pc, messages, response, modelCalls>>
       ELSE /\ messages' = FinalMessages(SystemMessage(RAG_PROMPT), HumanMessage(request),
                                         rag_response[1],
                                         ToolMessage(documents_str[1], ToolCallId(tool_call[1])))
            /\ response' = <<BaseReply>>
            /\ modelCalls' = Append(modelCalls, [model |-> FinalModel, messages |-> messages'])
            /\ pc' = "done"
            /\ err' = err
  /\ UNCHANGED <<documents, retrieved_documents, rag_response, tool_call, documents_str,
                 toolInvocations>>
  /\ UNCHANGED storeVars

Next == ChatCell \/ LoadCell \/ BuildCell \/ AskCell \/ DispatchCell \/ ShowDocsCell \/ FinalCell

\* One run of the notebook, top to bottom, on a fresh kernel.  The cells that
\* only display a value, and the retriever's trial query (which binds
\* retrieved_documents, read by no later cell; see RetrieverInvoke), are left
\* out.
Spec == Init /\ [][Next]_vars

\* ------------------------------------------- the vector store on its own
\* A kernel session that calls initialize_vector_store and the retriever any
\* number of times, in any order.
IndexInit == pc = "index" /\ InitVars

CallInitializeVectorStore ==
  /\ pc = "index" /\ err = "none"
  /\ buildCount < MaxBuilds
  /\ \E chunks \in Corpora :
       /\ documents' = chunks
       /\ initialize_vector_store(chunks)
  /\ UNCHANGED <<pc, retrieved_documents>>
  /\ UNCHANGED turnVars

\* retrieved_documents = retriever.invoke(retrieval_query)
RetrieverInvoke ==
  /\ pc = "index" /\ err = "none"
  /\ buildCount > 0
  /\ \E docs \in Retrievals(collection) : retrieved_documents' = <<docs>>
  /\ lastOp' = "query"
  /\ UNCHANGED <<pc, err, documents, collection, buildCount, lastChunks, discarded>>
  /\ UNCHANGED turnVars

IndexNext == CallInitializeVectorStore \/ RetrieverInvoke

IndexSpec == IndexInit /\ [][IndexNext]_vars

\* ------------------------------------------------- reading the turn's state
\* The tool calls of the RAG model's reply (once rag_response is bound).
Calls == rag_response[1].tool_calls

ToolRoleMessages(msgs) == SelectSeq(msgs, LAMBDA m : m.role = "tool")

\* The invocations of the plain model made with the RAG prompt (the chatbot's
\* earlier invocation carries BASE_PROMPT).
PlainCallsOfTurn ==
  SelectSeq(modelCalls, LAMBDA c : c.model = "base_model"
                                   /\ c.messages[1] = SystemMessage(RAG_PROMPT))

\* The turn controller's state, read off the run's position.
TurnState ==
  CASE pc \in {"chat", "load", "build", "ask"} -> "INIT"
    [] pc = "dispatch" -> IF Calls = <<>> THEN "DIRECT_ANSWERED" ELSE "TOOL_REQUESTED"
    [] pc = "show" -> IF toolInvocations = <<>> THEN "DIRECT_ANSWERED" ELSE "TOOL_EXECUTED"
    [] pc = "final" -> "TOOL_EXECUTED"
    [] pc = "done" -> "DONE"
    [] OTHER -> "NONE"

\* The first request can be dispatched: its tool is registered and its
\* arguments fit the tool's signature.
FirstCallDispatchable ==
  /\ Calls[1].name \in DOMAIN tools_by_name
  /\ Calls[1].args = ValidArgs

\* The exception a lookup of an unregistered name in tools_by_name raises.
UnknownToolError == "KeyError"

\* --------------------------------------------------------------- claims

\* C1: in a turn whose RAG reply carries one or more tool calls, the first of
\* which can be dispatched, no cell raises, the run stops only at DONE, the
\* tool is invoked at most once and only with the first request, and at DONE
\* it was invoked exactly once and the conversation holds exactly one
\* tool-role message.
C1_SingleDispatch ==
  (rag_response # <<>> /\ Calls # <<>> /\ FirstCallDispatchable) =>
    /\ err = "none"
    /\ TurnState # "DONE" => ENABLED Next
    /\ Len(toolInvocations) <= 1
    /\ \A i \in 1..Len(toolInvocations) : toolInvocations[i].request = Calls[1]
    /\ TurnState = "DONE" =>
         /\ Len(toolInvocations) = 1
         /\ Len(ToolRoleMessages(messages)) = 1

C1_Witness ==
  /\ TurnState = "DONE"
  /\ Len(Calls) = 2
  /\ Calls[2] # Calls[1]
  /\ Len(toolInvocations) = 1
  /\ Len(ToolRoleMessages(messages)) = 1

\* C2 (as claimed): in a turn whose RAG reply carries no tool call, no cell
\* raises, the run stops only at DONE, the final answer is that reply, the
\* tool is never invoked and no tool-role message is appended.
C2_DirectAnswer ==
  (rag_response # <<>> /\ Calls = <<>>) =>
    /\ err = "none"
    /\ TurnState # "DONE" => ENABLED Next
    /\ TurnState = "DONE" => response = rag_response
    /\ toolInvocations = <<>>
    /\ ToolRoleMessages(messages) = <<>>

\* C3: when the first tool call names a tool with no registered handler, the
\* only exception is the lookup's, the turn stays at TOOL_REQUESTED, the tool
\* is never invoked, no tool-role message is appended and the plain model is
\* never invoked in the turn; once the dispatch cell has run, the exception
\* has been raised.
C3_UnknownToolAborts ==
  (rag_response # <<>> /\ Calls # <<>> /\ Calls[1].name \notin DOMAIN tools_by_name) =>
    /\ TurnState = "TOOL_REQUESTED"
    /\ err \in {"none", UnknownToolError}
    /\ tool_call # <<>> => err = UnknownToolError
    /\ toolInvocations = <<>>
    /\ ToolRoleMessages(messages) = <<>>
    /\ PlainCallsOfTurn = <<>>
    /\ documents_str = <<>>

C3_Witness ==
  /\ err = UnknownToolError
  /\ Len(Calls) = 2
  /\ Calls[1].name \notin DOMAIN tools_by_name
  /\ Calls[2].name \in DOMAIN tools_by_name
  /\ TurnState = "TOOL_REQUESTED"

\* C4: every tool-role message of the conversation carries the call id of the
\* first tool call of the RAG reply, which is the id of the request that was
\* dispatched.
C4_CallIdPreserved ==
  \A i \in 1..Len(messages) :
    messages[i].role = "tool" =>
      /\ rag_response # <<>> /\ Calls # <<>>
      /\ messages[i].tool_call_id = Calls[1].id
      /\ toolInvocations # <<>>
      /\ messages[i].tool_call_id = toolInvocations[Len(toolInvocations)].request.id

C4_Witness ==
  /\ ToolRoleMessages(messages) # <<>>
  /\ Len(Calls) = 2
  /\ Calls[1].id # Calls[2].id
  /\ ToolRoleMessages(messages)[1].tool_call_id = Calls[1].id

C5_AlreadyBuiltFails ==
  [][(collection # <<>> /\ buildCount' # buildCount) =>
       (err' = "AlreadyBuiltError" /\ collection' = collection)]_vars

\* C5 (amended): a call of initialize_vector_store never fails, whatever the
\* collection held: it leaves the collection holding exactly the documents it
\* was given, in order.
C5_BuildReplaces ==
  lastOp = "build" => (err = "none" /\ collection = lastChunks)

C5_Witness ==
  /\ lastOp = "build"
  /\ buildCount >= 2
  /\ discarded # {}
  /\ collection # <<>>

\* C6: the collection holds no document twice and none that only an earlier
\* build loaded, and a retrieval returns none of those either.
C6_NoStaleRecords ==
  /\ NoDuplicates(collection)
  /\ Range(collection) \subseteq Range(lastChunks)
  /\ Range(collection) \cap discarded = {}
  /\ lastOp = "query" =>
       /\ Range(retrieved_documents[1]) \cap discarded = {}
       /\ Range(retrieved_documents[1]) \subseteq Range(lastChunks)

C6_Witness ==
  /\ lastOp = "query"
  /\ buildCount >= 2
  /\ discarded # {}
  /\ retrieved_documents[1] # <<>>
====
